---- MODULE Spec2Model ----
(***************************************************************************)
(* A model of base64_tool.py: the Base64 normalizer, the codec calls, the  *)
(* content detector, the decode / encode / detect operations, the batch    *)
(* runner and the decode subcommand of main.                               *)
(*                                                                         *)
(* A Python str is a sequence of characters, a character a one-character   *)
(* TLA+ string (a non-ASCII character is the token "U+XXXX").  A Python    *)
(* bytes object is a sequence of numbers in 0..255.  Python's None is the  *)
(* value None below; a dict is a function from its keys to its values.     *)
(***************************************************************************)
EXTENDS Integers, Sequences, FiniteSets, TLC

VARIABLES
    pc,          \* "idle", "normalized", "encoded", "batch" (inside the loop), "done"
    call,        \* the last call: its arguments, what it read and what it returned
    fs,          \* the files the program has written: path -> bytes
    writes,      \* the files opened for writing, in order: [path, data]
    lines,       \* batch_decode: the non-blank lines of the input file
    output_dir,  \* batch_decode: its output_dir argument
    i,           \* batch_decode: the number of lines processed
    results      \* batch_decode: the per-item results so far

vars == << pc, call, fs, writes, lines, output_dir, i, results >>

(***************************************************************************)
(* Python values                                                           *)
(***************************************************************************)
None == <<"<None>">>

\* the truth value of an Optional[str]: None and "" are false
Truthy(x) == x # None /\ x # <<>>

Take(s, n) == IF Len(s) <= n THEN s ELSE SubSeq(s, 1, n)

Drop(s, n) == IF Len(s) <= n THEN <<>> ELSE SubSeq(s, n + 1, Len(s))

Repeat(c, n) == [k \in 1..n |-> c]

Contains(s, c) == \E k \in 1..Len(s) : s[k] = c

Replace(s, a, b) == [k \in 1..Len(s) |-> IF s[k] = a THEN b ELSE s[k]]

StartsWith(s, p) == Len(p) <= Len(s) /\ SubSeq(s, 1, Len(p)) = p

\* the characters str.split() and str.strip() treat as whitespace
Whitespace == {" ", "\t", "\n", "\r", "\f", "U+00A0"}

\* the characters outside ASCII
NonAscii == {"U+00A0", "U+00E9"}

\* ''.join(s.split())
RemoveWhitespace(s) == SelectSeq(s, LAMBDA c : c \notin Whitespace)

RECURSIVE LStrip(_)
LStrip(s) == IF s # <<>> /\ Head(s) \in Whitespace THEN LStrip(Tail(s)) ELSE s

RECURSIVE RStrip(_)
RStrip(s) ==
    IF s # <<>> /\ s[Len(s)] \in Whitespace THEN RStrip(SubSeq(s, 1, Len(s) - 1)) ELSE s

\* s.strip()
Strip(s) == RStrip(LStrip(s))

(***************************************************************************)
(* The Base64 codec of the standard library, as base64_tool.py calls it    *)
(***************************************************************************)
B64Alphabet ==
    << "A", "B", "C", "D", "E", "F", "G", "H", "I", "J", "K", "L", "M",
       "N", "O", "P", "Q", "R", "S", "T", "U", "V", "W", "X", "Y", "Z",
       "a", "b", "c", "d", "e", "f", "g", "h", "i", "j", "k", "l", "m",
       "n", "o", "p", "q", "r", "s", "t", "u", "v", "w", "x", "y", "z",
       "0", "1", "2", "3", "4", "5", "6", "7", "8", "9", "+", "/" >>

IsB64(c) == \E k \in 1..64 : B64Alphabet[k] = c

Sextet(c) == CHOOSE k \in 0..63 : B64Alphabet[k + 1] = c

B64Char(v) == B64Alphabet[v + 1]

\* binascii.a2b_base64 without strict_mode reads s left to right: a character
\* outside the alphabet is skipped; a '=' is counted only once two or three
\* characters of the current quad are read, and the count starts again at every
\* alphabet character; the '=' that completes the quad ends the decoding, whatever
\* follows it.  PadStops(s) are the positions of such a '='.
DataBefore(s, k) == {j \in 1..(k - 1) : IsB64(s[j])}

PadsBefore(s, k) ==
    Cardinality({j \in 1..(k - 1) : s[j] = "=" /\ \A d \in DataBefore(s, k) : d < j})

PadStops(s) ==
    {k \in 1..Len(s) :
        /\ s[k] = "="
        /\ Cardinality(DataBefore(s, k)) % 4 >= 2
        /\ (Cardinality(DataBefore(s, k)) % 4) + PadsBefore(s, k) + 1 >= 4}

\* the bytes of the alphabet characters d: four characters to three bytes, and one
\* or two bytes of a last quad of two or three characters
BytesOfQuads(d) ==
    LET v(k) == Sextet(d[k])
        n == (Len(d) \div 4) * 3 + (CASE Len(d) % 4 = 2 -> 1 [] Len(d) % 4 = 3 -> 2 [] OTHER -> 0)
    IN  [m \in 1..n |->
            LET q == ((m - 1) \div 3) * 4 IN
            CASE (m - 1) % 3 = 0 -> v(q + 1) * 4 + (v(q + 2) \div 16)
              [] (m - 1) % 3 = 1 -> (v(q + 2) % 16) * 16 + (v(q + 3) \div 4)
              [] OTHER -> (v(q + 3) % 4) * 64 + v(q + 4)]

a2b_base64(s) ==
    LET stops == PadStops(s)
        stop == CHOOSE k \in stops : \A o \in stops : k <= o
        read == IF stops = {} THEN s ELSE SubSeq(s, 1, stop - 1)
        d == SelectSeq(read, IsB64)
        quad_pos == Len(d) % 4
    IN  IF stops # {} \/ quad_pos = 0
        THEN [ok |-> TRUE, data |-> BytesOfQuads(d), error |-> ""]
        ELSE [ok |-> FALSE, data |-> <<>>,
              error |-> IF quad_pos = 1 THEN "Invalid base64-encoded string"
                                        ELSE "Incorrect padding"]

\* base64.b64decode(s) of a str: s.encode('ascii'), then a2b_base64
b64decode(s) ==
    IF \E k \in 1..Len(s) : s[k] \in NonAscii
    THEN [ok |-> FALSE, data |-> <<>>,
          error |-> "string argument should contain only ASCII characters"]
    ELSE a2b_base64(s)

\* base64.b64encode(data): three bytes to four characters, '=' for the characters
\* of a last group that no byte reaches
b64encode(data) ==
    LET n == Len(data)
        byte(k) == IF k <= n THEN data[k] ELSE 0
    IN  [j \in 1..(((n + 2) \div 3) * 4) |->
            LET g == ((j - 1) \div 4) * 3 IN
            CASE (j - 1) % 4 = 0 -> B64Char(byte(g + 1) \div 4)
              [] (j - 1) % 4 = 1 ->
                   B64Char((byte(g + 1) % 4) * 16 + (byte(g + 2) \div 16))
              [] (j - 1) % 4 = 2 ->
                   IF g + 2 > n THEN "="
                   ELSE B64Char((byte(g + 2) % 16) * 4 + (byte(g + 3) \div 64))
              [] OTHER -> IF g + 3 > n THEN "=" ELSE B64Char(byte(g + 3) % 64)]

\* base64.urlsafe_b64encode(data): b64encode, then '+' to '-' and '/' to '_'
urlsafe_b64encode(data) == Replace(Replace(b64encode(data), "+", "-"), "/", "_")

(***************************************************************************)
(* normalize_base64                                                        *)
(***************************************************************************)
\* normalize_base64 padding with len % 4 characters instead of 4 - len % 4
normalize_base64_pad_remainder(b64_string) ==
    LET s1 == RemoveWhitespace(b64_string)
        s2 == IF Contains(s1, "-") \/ Contains(s1, "_")
              THEN Replace(Replace(s1, "-", "+"), "_", "/")
              ELSE s1
        padding == Len(s2) % 4
    IN  IF padding # 0 THEN s2 \o Repeat("=", padding) ELSE s2

\* normalize_base64 without the conversion of the URL-safe alphabet
normalize_base64_keep_urlsafe(b64_string) ==
    LET s1 == RemoveWhitespace(b64_string)
        padding == Len(s1) % 4
    IN  IF padding # 0 THEN s1 \o Repeat("=", 4 - padding) ELSE s1

normalize_base64(b64_string) ==
    LET s1 == RemoveWhitespace(b64_string)
        s2 == IF Contains(s1, "-") \/ Contains(s1, "_")
              THEN Replace(Replace(s1, "-", "+"), "_", "/")
              ELSE s1
        padding == Len(s2) % 4
    IN  IF padding # 0 THEN s2 \o Repeat("=", 4 - padding) ELSE s2

(***************************************************************************)
(* bytes.decode('utf-8') and str.encode('utf-8')                           *)
(***************************************************************************)
IsCont(b) == b >= 128 /\ b <= 191

\* the number of bytes of the UTF-8 sequence that starts at data[k], 0 when the
\* bytes there are no valid sequence
Utf8SeqLen(data, k) ==
    LET n  == Len(data)
        b0 == data[k]
        b1 == IF k + 1 <= n THEN data[k + 1] ELSE 0
        c2 == k + 2 <= n /\ IsCont(data[k + 2])
        c3 == k + 3 <= n /\ IsCont(data[k + 3])
    IN  CASE b0 < 128 -> 1
          [] b0 >= 194 /\ b0 <= 223 -> IF IsCont(b1) THEN 2 ELSE 0
          [] b0 = 224 -> IF b1 >= 160 /\ b1 <= 191 /\ c2 THEN 3 ELSE 0
          [] b0 = 237 -> IF b1 >= 128 /\ b1 <= 159 /\ c2 THEN 3 ELSE 0
          [] b0 >= 225 /\ b0 <= 239 -> IF IsCont(b1) /\ c2 THEN 3 ELSE 0
          [] b0 = 240 -> IF b1 >= 144 /\ b1 <= 191 /\ c2 /\ c3 THEN 4 ELSE 0
          [] b0 >= 241 /\ b0 <= 243 -> IF IsCont(b1) /\ c2 /\ c3 THEN 4 ELSE 0
          [] b0 = 244 -> IF b1 >= 128 /\ b1 <= 143 /\ c2 /\ c3 THEN 4 ELSE 0
          [] OTHER -> 0

CodePoint(data, k, n) ==
    CASE n = 1 -> data[k]
      [] n = 2 -> (data[k] - 192) * 64 + (data[k + 1] - 128)
      [] n = 3 -> (data[k] - 224) * 4096 + (data[k + 1] - 128) * 64 + (data[k + 2] - 128)
      [] OTHER -> (data[k] - 240) * 262144 + (data[k + 1] - 128) * 4096
                  + (data[k + 2] - 128) * 64 + (data[k + 3] - 128)

\* data.decode('utf-8'): the code points, or UnicodeDecodeError (ok = FALSE).  The
\* decoder reads one sequence after the other; as no continuation byte starts a
\* sequence, the sequences start at the bytes that are no continuation bytes, and
\* the data is valid when each of these starts a valid sequence and every
\* continuation byte lies inside one.
utf8_decode(data) ==
    LET n == Len(data)
        starts == SelectSeq([k \in 1..n |-> k], LAMBDA k : ~IsCont(data[k]))
        valid ==
            \A k \in 1..n :
                IF ~IsCont(data[k]) THEN Utf8SeqLen(data, k) # 0
                ELSE \E d \in 1..3 :
                        /\ k - d >= 1
                        /\ ~IsCont(data[k - d])
                        /\ Utf8SeqLen(data, k - d) > d
    IN  IF valid
        THEN [ok |-> TRUE,
              text |-> [j \in 1..Len(starts) |->
                           CodePoint(data, starts[j], Utf8SeqLen(data, starts[j]))]]
        ELSE [ok |-> FALSE, text |-> <<>>]

EncodeCodePoint(cp) ==
    CASE cp < 128 -> << cp >>
      [] cp < 2048 -> << 192 + (cp \div 64), 128 + (cp % 64) >>
      [] cp < 65536 -> << 224 + (cp \div 4096), 128 + ((cp \div 64) % 64), 128 + (cp % 64) >>
      [] OTHER -> << 240 + (cp \div 262144), 128 + ((cp \div 4096) % 64),
                     128 + ((cp \div 64) % 64), 128 + (cp % 64) >>

RECURSIVE utf8_encode(_)
\* text.encode('utf-8') of a str given by its code points
utf8_encode(text) ==
    IF text = <<>> THEN <<>> ELSE EncodeCodePoint(Head(text)) \o utf8_encode(Tail(text))

(***************************************************************************)
(* json.loads: the scanner of the standard library.  Every parser below    *)
(* takes the text and a position and returns the position after what it    *)
(* read, or 0 when the text is no JSON there.                              *)
(***************************************************************************)
JsonWs == {32, 9, 10, 13}

IsDigit(c) == c >= 48 /\ c <= 57

IsHex(c) == IsDigit(c) \/ (c >= 65 /\ c <= 70) \/ (c >= 97 /\ c <= 102)

At(s, k) == IF k >= 1 /\ k <= Len(s) THEN s[k] ELSE -1

RECURSIVE SkipWs(_, _)
SkipWs(s, k) == IF At(s, k) \in JsonWs THEN SkipWs(s, k + 1) ELSE k

RECURSIVE SkipDigits(_, _)
SkipDigits(s, k) == IF IsDigit(At(s, k)) THEN SkipDigits(s, k + 1) ELSE k

MatchLiteral(s, k, lit) ==
    IF k + Len(lit) - 1 <= Len(s) /\ SubSeq(s, k, k + Len(lit) - 1) = lit
    THEN k + Len(lit) ELSE 0

\* the characters of a string after its opening quote
RECURSIVE ScanString(_, _)
ScanString(s, k) ==
    LET c == At(s, k) IN
    CASE c = -1 -> 0
      [] c = 34 -> k + 1
      [] c = 92 ->
           LET e == At(s, k + 1) IN
           IF e \in {34, 92, 47, 98, 102, 110, 114, 116} THEN ScanString(s, k + 2)
           ELSE IF e = 117 /\ \A d \in 2..5 : IsHex(At(s, k + d))
                THEN ScanString(s, k + 6) ELSE 0
      [] c >= 0 /\ c < 32 -> 0
      [] OTHER -> ScanString(s, k + 1)

\* -?(0|[1-9][0-9]*)(\.[0-9]+)?([eE][-+]?[0-9]+)?
ScanNumber(s, k) ==
    LET p1 == IF At(s, k) = 45 THEN k + 1 ELSE k
        p2 == IF At(s, p1) = 48 THEN p1 + 1
              ELSE IF IsDigit(At(s, p1)) THEN SkipDigits(s, p1) ELSE 0
        p3 == IF At(s, p2) = 46 /\ IsDigit(At(s, p2 + 1)) THEN SkipDigits(s, p2 + 1) ELSE p2
        e1 == IF At(s, p3 + 1) \in {43, 45} THEN p3 + 2 ELSE p3 + 1
        p4 == IF At(s, p3) \in {69, 101} /\ IsDigit(At(s, e1)) THEN SkipDigits(s, e1) ELSE p3
    IN  IF p2 = 0 THEN 0 ELSE p4

RECURSIVE ScanValue(_, _), ScanElements(_, _), ScanMembers(_, _)
\* scan_once
ScanValue(s, k) ==
    LET c == At(s, k) IN
    CASE c = 34 -> ScanString(s, k + 1)
      [] c = 123 ->
           LET p == SkipWs(s, k + 1) IN
           IF At(s, p) = 125 THEN p + 1 ELSE ScanMembers(s, p)
      [] c = 91 ->
           LET p == SkipWs(s, k + 1) IN
           IF At(s, p) = 93 THEN p + 1 ELSE ScanElements(s, p)
      [] c = 110 -> MatchLiteral(s, k, << 110, 117, 108, 108 >>)
      [] c = 116 -> MatchLiteral(s, k, << 116, 114, 117, 101 >>)
      [] c = 102 -> MatchLiteral(s, k, << 102, 97, 108, 115, 101 >>)
      [] c = 78 -> MatchLiteral(s, k, << 78, 97, 78 >>)
      [] c = 73 -> MatchLiteral(s, k, << 73, 110, 102, 105, 110, 105, 116, 121 >>)
      [] c = 45 ->
           LET m == MatchLiteral(s, k, << 45, 73, 110, 102, 105, 110, 105, 116, 121 >>) IN
           IF m # 0 THEN m ELSE ScanNumber(s, k)
      [] IsDigit(c) -> ScanNumber(s, k)
      [] OTHER -> 0

\* the elements of an array, from the first one to the closing bracket
ScanElements(s, k) ==
    LET v == ScanValue(s, k)
        p == SkipWs(s, v)
    IN  IF v = 0 THEN 0
        ELSE IF At(s, p) = 93 THEN p + 1
        ELSE IF At(s, p) = 44 THEN ScanElements(s, SkipWs(s, p + 1))
        ELSE 0

\* the members of an object, from the first key to the closing brace
ScanMembers(s, k) ==
    LET key == IF At(s, k) = 34 THEN ScanString(s, k + 1) ELSE 0
        col == SkipWs(s, key)
        v   == IF key # 0 /\ At(s, col) = 58 THEN ScanValue(s, SkipWs(s, col + 1)) ELSE 0
        p   == SkipWs(s, v)
    IN  IF v = 0 THEN 0
        ELSE IF At(s, p) = 125 THEN p + 1
        ELSE IF At(s, p) = 44 THEN ScanMembers(s, SkipWs(s, p + 1))
        ELSE 0

\* whether json.loads(text) returns a value (TRUE) or raises JSONDecodeError
json_valid(text) ==
    LET v == IF At(text, 1) = 65279 THEN 0 ELSE ScanValue(text, SkipWs(text, 1))
    IN  v # 0 /\ SkipWs(text, v) = Len(text) + 1

\* json.loads(text) of a valid text: the value the text denotes
json_loads(text) == [json_value_of |-> text]

(***************************************************************************)
(* detect_content_type                                                     *)
(***************************************************************************)
\* MAGIC_BYTES in insertion order: the prefix, the mime type, mime.split('/')[0]
MAGIC_BYTES ==
    << [magic |-> << 137, 80, 78, 71, 13, 10, 26, 10 >>, mime |-> "image/png", category |-> "image"],
       [magic |-> << 255, 216, 255 >>, mime |-> "image/jpeg", category |-> "image"],
       [magic |-> << 71, 73, 70, 56, 55, 97 >>, mime |-> "image/gif", category |-> "image"],
       [magic |-> << 71, 73, 70, 56, 57, 97 >>, mime |-> "image/gif", category |-> "image"],
       [magic |-> << 37, 80, 68, 70 >>, mime |-> "application/pdf", category |-> "application"],
       [magic |-> << 80, 75, 3, 4 >>, mime |-> "application/zip", category |-> "application"],
       [magic |-> << 31, 139 >>, mime |-> "application/gzip", category |-> "application"] >>

\* detect_content_type trying UTF-8 and JSON before the magic bytes
detect_content_type_text_first(data) ==
    LET hits == {m \in 1..Len(MAGIC_BYTES) : StartsWith(data, MAGIC_BYTES[m].magic)}
        first == CHOOSE m \in hits : \A o \in hits : m <= o
        text == utf8_decode(data)
    IN  IF text.ok
        THEN IF json_valid(text.text)
             THEN << "json", "application/json" >>
             ELSE << "text", "text/plain" >>
        ELSE IF hits # {}
             THEN << MAGIC_BYTES[first].category, MAGIC_BYTES[first].mime >>
             ELSE << "binary", "application/octet-stream" >>

detect_content_type(data) ==
    LET hits == {m \in 1..Len(MAGIC_BYTES) : StartsWith(data, MAGIC_BYTES[m].magic)}
        first == CHOOSE m \in hits : \A o \in hits : m <= o
        text == utf8_decode(data)
    IN  IF hits # {}
        THEN << MAGIC_BYTES[first].category, MAGIC_BYTES[first].mime >>
        ELSE IF text.ok
             THEN IF json_valid(text.text)
                  THEN << "json", "application/json" >>
                  ELSE << "text", "text/plain" >>
             ELSE << "binary", "application/octet-stream" >>

(***************************************************************************)
(* decode_base64, encode_base64, detect_type                               *)
(***************************************************************************)
HexDigits ==
    << "0", "1", "2", "3", "4", "5", "6", "7", "8", "9", "a", "b", "c", "d", "e", "f" >>

\* data.hex()
Hex(data) ==
    [k \in 1..(2 * Len(data)) |->
        IF k % 2 = 1 THEN HexDigits[(data[(k + 1) \div 2] \div 16) + 1]
                     ELSE HexDigits[(data[k \div 2] % 16) + 1]]

\* decoded_bytes[:64] of decode_base64
DecodePreviewBytes == 64

\* decoded_bytes[:32] of detect_type
DetectPreviewBytes == 32

\* text[:200] of detect_type
DetectPreviewChars == 200

\* the outcomes of "with open(output_file, 'wb') as f: f.write(decoded_bytes)":
\* written; open raised; the file was created or truncated and write raised
IoOutcomes == {"ok", "open_fail", "write_fail"}

\* decode_base64 without its except clause: the exception leaves the function
decode_failure_raised(e, files, wrote) ==
    [result |-> [success |-> FALSE, operation |-> "decode", error |-> e,
                 message |-> << "Failed to decode: ", e >>],
     files |-> files, wrote |-> wrote, raised |-> TRUE]

\* "except Exception as e" of decode_base64: the dict it returns, with the files
\* after the call and the files it opened for writing; raised says whether the
\* exception leaves decode_base64, which the except clause prevents
decode_failure(e, files, wrote) ==
    [result |-> [success |-> FALSE, operation |-> "decode", error |-> e,
                 message |-> << "Failed to decode: ", e >>],
     files |-> files, wrote |-> wrote, raised |-> FALSE]

\* the dict decode_base64 builds before it handles the output
decode_result(b64_string, decoded_bytes, ct) ==
    [success |-> TRUE, operation |-> "decode", input_length |-> Len(b64_string),
     type |-> ct[1], mime_type |-> ct[2], raw_size |-> Len(decoded_bytes)]

\* decode_base64 with force_binary overriding the JSON branch as well
decode_output_binary_first(b64_string, output_file, force_binary, files, io, decoded_bytes, ct) ==
    LET result == decode_result(b64_string, decoded_bytes, ct)
        text == utf8_decode(decoded_bytes).text
    IN  IF Truthy(output_file)
        THEN CASE io = "ok" ->
                    [result |-> ("output_file" :> output_file)
                                @@ ("message" :> << "Decoded and saved to ", output_file >>)
                                @@ result,
                     files |-> (output_file :> decoded_bytes) @@ files,
                     wrote |-> << [path |-> output_file, data |-> decoded_bytes] >>,
                     raised |-> FALSE]
               [] io = "open_fail" -> decode_failure("OSError", files, <<>>)
               [] OTHER ->
                    decode_failure("OSError", (output_file :> <<>>) @@ files,
                                   << [path |-> output_file, data |-> <<>>] >>)
        ELSE IF ct[1] = "json" /\ ~force_binary
        THEN [result |-> ("content" :> json_loads(text)) @@ ("raw_string" :> text)
                         @@ ("message" :> << "Successfully decoded as JSON" >>) @@ result,
              files |-> files, wrote |-> <<>>, raised |-> FALSE]
        ELSE IF ct[1] = "text" /\ ~force_binary
        THEN [result |-> ("content" :> text)
                         @@ ("message" :> << "Successfully decoded as text" >>) @@ result,
              files |-> files, wrote |-> <<>>, raised |-> FALSE]
        ELSE [result |-> ("hex_preview" :> Hex(Take(decoded_bytes, DecodePreviewBytes)))
                         @@ ("message" :> << "Binary data (", ct[2],
                                             "), use --output to save" >>) @@ result,
              files |-> files, wrote |-> <<>>, raised |-> FALSE]

\* decode_base64 from its "if output_file:" on: ct is (content_type, mime_type) and
\* io the outcome of writing the output file
decode_output(b64_string, output_file, force_binary, files, io, decoded_bytes, ct) ==
    LET result == decode_result(b64_string, decoded_bytes, ct)
        text == utf8_decode(decoded_bytes).text
    IN  IF Truthy(output_file)
        THEN CASE io = "ok" ->
                    [result |-> ("output_file" :> output_file)
                                @@ ("message" :> << "Decoded and saved to ", output_file >>)
                                @@ result,
                     files |-> (output_file :> decoded_bytes) @@ files,
                     wrote |-> << [path |-> output_file, data |-> decoded_bytes] >>,
                     raised |-> FALSE]
               [] io = "open_fail" -> decode_failure("OSError", files, <<>>)
               [] OTHER ->
                    decode_failure("OSError", (output_file :> <<>>) @@ files,
                                   << [path |-> output_file, data |-> <<>>] >>)
        ELSE IF ct[1] = "json"
        THEN [result |-> ("content" :> json_loads(text)) @@ ("raw_string" :> text)
                         @@ ("message" :> << "Successfully decoded as JSON" >>) @@ result,
              files |-> files, wrote |-> <<>>, raised |-> FALSE]
        ELSE IF ct[1] = "text" /\ ~force_binary
        THEN [result |-> ("content" :> text)
                         @@ ("message" :> << "Successfully decoded as text" >>) @@ result,
              files |-> files, wrote |-> <<>>, raised |-> FALSE]
        ELSE [result |-> ("hex_preview" :> Hex(Take(decoded_bytes, DecodePreviewBytes)))
                         @@ ("message" :> << "Binary data (", ct[2],
                                             "), use --output to save" >>) @@ result,
              files |-> files, wrote |-> <<>>, raised |-> FALSE]

\* decode_base64 opening the output file before it decodes
decode_decoded_open_first(b64_string, output_file, force_binary, files, io, decoded) ==
    IF ~decoded.ok
    THEN IF Truthy(output_file) /\ io # "open_fail"
         THEN decode_failure(decoded.error, (output_file :> <<>>) @@ files,
                             << [path |-> output_file, data |-> <<>>] >>)
         ELSE decode_failure(decoded.error, files, <<>>)
    ELSE decode_output(b64_string, output_file, force_binary, files, io,
                       decoded.data, detect_content_type(decoded.data))

\* decode_base64 once base64.b64decode has returned or raised
decode_decoded(b64_string, output_file, force_binary, files, io, decoded) ==
    IF ~decoded.ok THEN decode_failure(decoded.error, files, <<>>)
    ELSE decode_output(b64_string, output_file, force_binary, files, io,
                       decoded.data, detect_content_type(decoded.data))

\* decode_base64(b64_string, output_file, force_binary) on the files `files`, where
\* io is the outcome of writing the output file: the dict returned, the files after
\* the call, the files it opened for writing, and whether an exception left it
decode_base64(b64_string, output_file, force_binary, files, io) ==
    decode_decoded(b64_string, output_file, force_binary, files, io,
                   b64decode(normalize_base64(b64_string)))

\* what reading a file that cannot be read returns
Unreadable == << -1 >>

\* encode_base64(data, file_path, url_safe): data is a str given by its code points;
\* file_bytes is what reading file_path returns
encode_base64(data, file_path, url_safe, file_bytes) ==
    LET raw_bytes == IF Truthy(file_path) THEN file_bytes ELSE utf8_encode(data)
        source == IF Truthy(file_path) THEN << "file:", file_path >> ELSE << "text" >>
        encoded == IF url_safe THEN urlsafe_b64encode(raw_bytes) ELSE b64encode(raw_bytes)
    IN  IF Truthy(file_path) /\ file_bytes = Unreadable
        THEN [success |-> FALSE, operation |-> "encode", error |-> "OSError",
              message |-> << "Failed to encode: ", "OSError" >>]
        ELSE [success |-> TRUE, operation |-> "encode", source |-> source,
              input_size |-> Len(raw_bytes), output_length |-> Len(encoded),
              url_safe |-> url_safe, encoded |-> encoded,
              message |-> << "Successfully encoded to Base64" >>]

\* detect_type from its "result = {" on
detect_result(decoded_bytes, ct) ==
    LET result == [success |-> TRUE, operation |-> "detect", type |-> ct[1],
                   mime_type |-> ct[2], size |-> Len(decoded_bytes)]
        text == utf8_decode(decoded_bytes).text
    IN  IF ct[1] = "json" THEN ("content" :> json_loads(text)) @@ result
        ELSE IF ct[1] = "text"
        THEN ("preview" :> Take(text, DetectPreviewChars)
                           \o (IF Len(text) > DetectPreviewChars
                               THEN << 46, 46, 46 >> ELSE <<>>)) @@ result
        ELSE ("hex_preview" :> Hex(Take(decoded_bytes, DetectPreviewBytes))) @@ result

\* detect_type once base64.b64decode has returned or raised
detect_decoded(decoded) ==
    IF ~decoded.ok
    THEN [success |-> FALSE, operation |-> "detect", error |-> decoded.error,
          message |-> << "Failed to detect: ", decoded.error >>]
    ELSE detect_result(decoded.data, detect_content_type(decoded.data))

\* detect_type(b64_string)
detect_type(b64_string) == detect_decoded(b64decode(normalize_base64(b64_string)))

\* dict.get(key, default)
Get(d, key, default) == IF key \in DOMAIN d THEN d[key] ELSE default

(***************************************************************************)
(* batch_decode: the loop body and the summary                             *)
(***************************************************************************)
\* the extension table of batch_decode, looked up by the detect result's mime_type
ExtTable ==
    [json |-> ".json", text |-> ".txt"]
    @@ ("image/png" :> ".png") @@ ("image/jpeg" :> ".jpg")
    @@ ("image/gif" :> ".gif") @@ ("application/pdf" :> ".pdf")

\* the ext of one line of batch_decode
batch_ext(line) == Get(ExtTable, Get(detect_type(line), "mime_type", ""), ".bin")

\* os.path.join(output_dir, f"item_{i}{ext}")
batch_output_file(dir, idx, ext) == << dir, "/", "item_", ToString(idx), ext >>

\* result["index"] = i + 1
with_index_from_one(r, idx) == [r EXCEPT !.result = ("index" :> (idx + 1)) @@ r.result]

\* result["index"] = i
with_index(r, idx) == [r EXCEPT !.result = ("index" :> idx) @@ r.result]

\* one pass of the loop of batch_decode over `line`, the idx-th line
batch_item(line, idx, dir, files, io) ==
    with_index(decode_base64(line,
                             IF Truthy(dir)
                             THEN batch_output_file(dir, idx, batch_ext(line))
                             ELSE None,
                             FALSE, files, io),
               idx)

RECURSIVE CountSuccess(_)
\* sum(1 for r in results if r["success"])
CountSuccess(rs) ==
    IF rs = <<>> THEN 0
    ELSE (IF Head(rs).success THEN 1 ELSE 0) + CountSuccess(Tail(rs))

\* the dict batch_decode returns after the loop
batch_summary(rs) ==
    LET success_count == CountSuccess(rs)
    IN  [success |-> TRUE, operation |-> "batch", total |-> Len(rs),
         succeeded |-> success_count, failed |-> Len(rs) - success_count,
         results |-> rs,
         message |-> << "Processed ", Len(rs), " items, ", success_count, " succeeded" >>]

\* the dict batch_decode returns from its except clause
batch_failure(e) ==
    [success |-> FALSE, operation |-> "batch", error |-> e,
     message |-> << "Batch processing failed: ", e >>]

\* [line.strip() for line in f if line.strip()]
batch_lines(file_lines) ==
    LET stripped == [k \in 1..Len(file_lines) |-> Strip(file_lines[k])]
    IN  SelectSeq(stripped, LAMBDA l : l # <<>>)

(***************************************************************************)
(* main, the decode subcommand: the string handed to decode_base64.        *)
(* file_text is what reading args.file returns, stdin what standard input  *)
(* holds.                                                                  *)
(***************************************************************************)
\* the decode subcommand preferring the positional argument to --file
main_decode_input_positional_first(base64_string, file, file_text, stdin) ==
    IF Truthy(base64_string) THEN base64_string
    ELSE IF Truthy(file) THEN Strip(file_text)
    ELSE Strip(stdin)

main_decode_input(base64_string, file, file_text, stdin) ==
    IF Truthy(file) THEN Strip(file_text)
    ELSE IF ~Truthy(base64_string) THEN Strip(stdin)
    ELSE base64_string

(***************************************************************************)
(* The inputs                                                              *)
(***************************************************************************)
\* the longest string given to normalize_base64 on its own
MaxNormLen == 4

\* the longest string of DecodeChars given to decode_base64 and detect_type
MaxStrLen == 3

\* the longest byte string of ByteAlphabet given to detect_content_type and encode_base64
MaxDataLen == 3

\* the most lines of a batch input file
MaxLines == 3

SeqsUpTo(S, n) == UNION {[1..m -> S] : m \in 0..n}

NormChars == {"A", "-", "_", "=", " "}

DecodeChars == {"A", "/", "_", "=", "!"}

\* '"', '1', '[', ']', the two bytes of U+00E9, and a byte no UTF-8 text holds
ByteAlphabet == {34, 49, 91, 93, 195, 169, 255}

HelloWorld == << 72, 101, 108, 108, 111, 32, 87, 111, 114, 108, 100 >>

JsonObject == << 123, 34, 116, 101, 115, 116, 34, 58, 32, 49, 125 >>

PdfText == << 37, 80, 68, 70, 45, 49, 46, 52, 32, 116, 101, 120, 116 >>

SampleBytes ==
    { HelloWorld, JsonObject, PdfText,
      << 123, 125 >>, << 110, 117, 108, 108 >>, << 45, 49, 46, 53 >>,
      << 32, 34, 97, 34, 10 >>, << 91, 49, 44, 93 >>,
      << 137, 80, 78, 71, 13, 10, 26, 10, 0 >>, << 137, 80, 78, 71 >>,
      << 255, 216, 255, 224 >>,
      << 71, 73, 70, 56, 55, 97, 49 >>, << 71, 73, 70, 56, 57, 97 >>,
      << 71, 73, 70, 56, 56, 97 >>,
      << 80, 75, 3, 4 >>, << 31, 139, 8 >>,
      << 255, 254, 0, 1 >>, << 251, 239, 190 >>,
      Repeat(97, DecodePreviewBytes + 2), Repeat(255, DecodePreviewBytes + 2) }

ByteInputs == SeqsUpTo(ByteAlphabet, MaxDataLen) \cup SampleBytes

\* the code points of the texts given to encode_base64 as data
TextInputs == { <<>>, << 72, 105 >>, << 233 >>, << 123, 125 >> }

\* s with its trailing '=' removed
RECURSIVE Unpadded(_)
Unpadded(s) ==
    IF s # <<>> /\ s[Len(s)] = "=" THEN Unpadded(SubSeq(s, 1, Len(s) - 1)) ELSE s

\* s with a line break after its second character
Wrapped(s) == IF Len(s) < 2 THEN s ELSE Take(s, 2) \o << "\n" >> \o Drop(s, 2)

\* SGVs!bG8= : "Hello" with a character outside the alphabet in it
HelloBang == << "S", "G", "V", "s", "!", "b", "G", "8", "=" >>

SampleB64 ==
    {b64encode(b) : b \in SampleBytes}
    \cup {urlsafe_b64encode(b) : b \in SampleBytes}
    \cup {Unpadded(b64encode(b)) : b \in SampleBytes}
    \cup {Wrapped(b64encode(b)) : b \in {HelloWorld, JsonObject}}
    \cup { HelloBang, << "A", "A", "U+00E9", "A" >>, << " ", "U+00A0", "\t" >>,
           << "A", "A", "A", "A", "=" >>, << "A", "A", "=", "=", "A", "A" >> }

NormInputs == SeqsUpTo(NormChars, MaxNormLen) \cup SampleB64

DecodeInputs == SeqsUpTo(DecodeChars, MaxStrLen) \cup SampleB64

OutFile == << "out.bin" >>

OutDir == << "decoded" >>

InFile == << "input.txt" >>

\* the lines a batch input file is made of: blank ones, text with blanks around it,
\* JSON, a line that cannot be decoded, a PNG header
BatchLineInputs ==
    { <<>>, << " ", "\t" >>,
      << " " >> \o b64encode(HelloWorld) \o << " " >>,
      b64encode(JsonObject),
      << "A" >>,
      b64encode(<< 137, 80, 78, 71, 13, 10, 26, 10, 0 >>) }

BatchFiles == SeqsUpTo(BatchLineInputs, MaxLines)

NoCall == [op |-> "none"]

(***************************************************************************)
(* The state machine: one run of the program, or one call of a function    *)
(***************************************************************************)
Init ==
    /\ pc = "idle"
    /\ call = NoCall
    /\ fs = <<>>
    /\ writes = <<>>
    /\ lines = <<>>
    /\ output_dir = None
    /\ i = 0
    /\ results = <<>>

BatchVars == << lines, output_dir, i, results >>

\* normalize_base64(s)
NormalizeCall ==
    /\ pc = "idle"
    /\ \E s \in NormInputs :
         call' = [op |-> "normalize", b64_string |-> s,
                  result |-> normalize_base64(s), prev |-> call]
    /\ pc' = "normalized"
    /\ UNCHANGED << fs, writes, BatchVars >>

\* normalize_base64 of what normalize_base64 returned
NormalizeAgain ==
    /\ pc = "normalized"
    /\ call' = [op |-> "normalize", b64_string |-> call.result,
                result |-> normalize_base64(call.result), prev |-> call]
    /\ pc' = "done"
    /\ UNCHANGED << fs, writes, BatchVars >>

\* detect_content_type(data)
DetectContentCall ==
    /\ pc = "idle"
    /\ \E data \in ByteInputs :
         call' = [op |-> "detect_content_type", data |-> data,
                  result |-> detect_content_type(data)]
    /\ pc' = "done"
    /\ UNCHANGED << fs, writes, BatchVars >>

\* encode_base64(data, file_path, url_safe)
EncodeCall ==
    /\ pc = "idle"
    /\ \E url_safe \in BOOLEAN :
         \/ \E data \in TextInputs :
              call' = [op |-> "encode", data |-> data, file_path |-> None,
                       url_safe |-> url_safe, raw_bytes |-> utf8_encode(data),
                       result |-> encode_base64(data, None, url_safe, Unreadable)]
         \/ \E file_bytes \in ByteInputs \cup {Unreadable} :
              call' = [op |-> "encode", data |-> <<>>, file_path |-> InFile,
                       url_safe |-> url_safe, raw_bytes |-> file_bytes,
                       result |-> encode_base64(<<>>, InFile, url_safe, file_bytes)]
    /\ pc' = "encoded"
    /\ UNCHANGED << fs, writes, BatchVars >>

Decoded(b64_string, output_file, force_binary, io, prev, r) ==
    /\ call' = [op |-> "decode", b64_string |-> b64_string, output_file |-> output_file,
                force_binary |-> force_binary, io |-> io, result |-> r.result,
                raised |-> r.raised, prev |-> prev]
    /\ fs' = r.files
    /\ writes' = writes \o r.wrote
    /\ pc' = "done"
    /\ UNCHANGED BatchVars

Decode(b64_string, output_file, force_binary, io, prev) ==
    Decoded(b64_string, output_file, force_binary, io, prev,
            decode_base64(b64_string, output_file, force_binary, fs, io))

IoFor(output_file) == IF Truthy(output_file) THEN IoOutcomes ELSE {"ok"}

\* decode_base64(b64_string, output_file, force_binary)
DecodeCall ==
    /\ pc = "idle"
    /\ \E b64_string \in DecodeInputs, output_file \in {None, <<>>, OutFile},
          force_binary \in BOOLEAN :
         \E io \in IoFor(output_file) :
            Decode(b64_string, output_file, force_binary, io, NoCall)

\* decode_base64 of the string encode_base64 returned
DecodeEncoded ==
    /\ pc = "encoded"
    /\ call.result.success
    /\ \E output_file \in {None, OutFile} :
         \E io \in IoFor(output_file) :
            Decode(call.result.encoded, output_file, FALSE, io, call)

\* detect_type(b64_string)
DetectCall ==
    /\ pc = "idle"
    /\ \E b64_string \in DecodeInputs :
         call' = [op |-> "detect", b64_string |-> b64_string,
                  result |-> detect_type(b64_string)]
    /\ pc' = "done"
    /\ UNCHANGED << fs, writes, BatchVars >>

\* main: result = decode_base64(b64_input, output_file=args.output, ...)
MainDecodedTo(args, file_text, stdin, io, b64_input, r) ==
    /\ call' = [op |-> "main_decode", args |-> args, file_text |-> file_text,
                stdin |-> stdin, raised |-> r.raised, b64_input |-> b64_input,
                io |-> io, result |-> r.result]
    /\ fs' = r.files
    /\ writes' = writes \o r.wrote
    /\ pc' = "done"
    /\ UNCHANGED BatchVars

MainDecoded(args, file_text, stdin, io, b64_input) ==
    MainDecodedTo(args, file_text, stdin, io, b64_input,
                  decode_base64(b64_input, args.output, args.binary, fs, io))

\* main with the decode subcommand; an unreadable --file ends the run with the
\* exception that open raised
MainDecode ==
    /\ pc = "idle"
    /\ \E base64_string \in {None, <<>>, b64encode(HelloWorld)},
          file \in {None, <<>>, InFile},
          file_text \in {None, <<>>, b64encode(JsonObject) \o << "\n" >>},
          stdin \in {<<>>, << " " >> \o b64encode(<< 255, 254, 0, 1 >>) \o << "\n" >>},
          output \in {None, OutFile}, binary \in BOOLEAN :
         LET args == [base64_string |-> base64_string, file |-> file,
                      output |-> output, binary |-> binary]
         IN  IF Truthy(file) /\ file_text = None
             THEN /\ call' = [op |-> "main_decode", args |-> args, file_text |-> file_text,
                              stdin |-> stdin, raised |-> TRUE]
                  /\ pc' = "done"
                  /\ UNCHANGED << fs, writes, BatchVars >>
             ELSE \E io \in IoFor(output) :
                    MainDecoded(args, file_text, stdin, io,
                                main_decode_input(base64_string, file, file_text, stdin))

\* batch_decode up to its loop: the input file is read (its lines are file_lines;
\* readable = FALSE when it cannot be read) and the output directory is made
\* (made = FALSE when it cannot)
BatchStart ==
    /\ pc = "idle"
    /\ \E file_lines \in BatchFiles, readable \in BOOLEAN,
          dir \in {None, <<>>, OutDir}, made \in BOOLEAN :
         /\ Truthy(dir) \/ made
         /\ readable \/ (file_lines = <<>> /\ made)
         /\ IF ~readable \/ ~made
            THEN /\ call' = [op |-> "batch", file_lines |-> file_lines,
                             readable |-> readable, made |-> made,
                             result |-> batch_failure("OSError")]
                 /\ pc' = "done"
                 /\ lines' = <<>>
            ELSE /\ call' = [op |-> "batch", file_lines |-> file_lines,
                             readable |-> readable, made |-> made]
                 /\ pc' = "batch"
                 /\ lines' = batch_lines(file_lines)
         /\ output_dir' = dir
    /\ i' = 0
    /\ results' = <<>>
    /\ UNCHANGED << fs, writes >>

\* results.append(result), and what the pass did to the files; an exception that
\* leaves the loop body is caught by the except clause of batch_decode
BatchItemDone(r) ==
    /\ fs' = r.files
    /\ writes' = writes \o r.wrote
    /\ IF r.raised
       THEN /\ call' = ("result" :> batch_failure(r.result.error)) @@ call
            /\ pc' = "done"
            /\ UNCHANGED << results, i >>
       ELSE /\ results' = Append(results, r.result)
            /\ i' = i + 1
            /\ UNCHANGED << pc, call >>

\* one pass of the loop
BatchItem ==
    /\ pc = "batch"
    /\ i < Len(lines)
    /\ \E io \in IoFor(output_dir) :
         BatchItemDone(batch_item(lines[i + 1], i, output_dir, fs, io))
    /\ UNCHANGED << lines, output_dir >>

\* the loop is over: the summary is returned
BatchFinish ==
    /\ pc = "batch"
    /\ i = Len(lines)
    /\ call' = ("result" :> batch_summary(results)) @@ call
    /\ pc' = "done"
    /\ UNCHANGED << fs, writes, lines, output_dir, i, results >>

Next ==
    \/ NormalizeCall
    \/ NormalizeAgain
    \/ DetectContentCall
    \/ EncodeCall
    \/ DecodeCall
    \/ DecodeEncoded
    \/ DetectCall
    \/ MainDecode
    \/ BatchStart
    \/ BatchItem
    \/ BatchFinish

Spec == Init /\ [][Next]_vars

(***************************************************************************)
(* The properties                                                          *)
(***************************************************************************)
\* the bytes a line or an argument decodes to, and whether it decodes
DecodedOf(b64_string) == b64decode(normalize_base64(b64_string))

\* the lines of a file that hold a character that is no whitespace
NonBlank(file_lines) ==
    SelectSeq(file_lines, LAMBDA l : \E k \in 1..Len(l) : l[k] \notin Whitespace)

\* batch_decode has returned after reading its input and making its directory
BatchReturned == pc = "done" /\ call.op = "batch" /\ call.readable /\ call.made

\* C1: when batch_decode has read an input file of n non-blank lines (and made the
\* output directory, if one is given), it returns total = n and n results in the
\* order of the lines, the k-th with index k - 1 (counting from 1); succeeded is
\* the number of results with success = true and failed is total - succeeded,
\* whatever lines decode and with or without an output directory.
C1_BatchSummary ==
    BatchReturned =>
        LET r == call.result
            nb == NonBlank(call.file_lines)
            n == Len(nb)
        IN  /\ r.success
            /\ r.total = n
            /\ Len(r.results) = n
            /\ \A k \in 1..n :
                 /\ r.results[k].index = k - 1
                 /\ r.results[k].success =>
                      /\ DecodedOf(nb[k]).ok
                      /\ r.results[k].mime_type
                           = detect_content_type(DecodedOf(nb[k]).data)[2]
                 /\ ~Truthy(output_dir) => (r.results[k].success <=> DecodedOf(nb[k]).ok)
            /\ r.succeeded = Cardinality({k \in 1..n : r.results[k].success})
            /\ r.failed = r.total - r.succeeded

\* C1 witness: three lines, the second undecodable, with an output directory
C1_Witness ==
    /\ BatchReturned
    /\ Truthy(output_dir)
    /\ call.result.success
    /\ call.result.total = 3
    /\ call.result.succeeded = 2
    /\ call.result.failed = 1
    /\ ~call.result.results[2].success
    /\ call.result.results[3].index = 2

\* C2: batch_decode returns success = false exactly when the input file cannot be
\* read or the output directory cannot be made; an item that fails (it does not
\* decode, or its output file cannot be written) is recorded with success = false
\* and an error, the loop goes on, and at the end every line has its result.
C2_ItemFailuresIsolated ==
    /\ (pc = "done" /\ call.op = "batch") =>
            (call.result.success <=> (call.readable /\ call.made))
    /\ (call.op = "batch" /\ pc \in {"batch", "done"} /\ call.readable /\ call.made) =>
            /\ Len(results) = i
            /\ pc = "done" => i = Len(lines)
            /\ \A k \in 1..Len(results) :
                 /\ results[k].index = k - 1
                 /\ ~results[k].success => "error" \in DOMAIN results[k]
                 /\ ~DecodedOf(lines[k]).ok => ~results[k].success

\* C2 witness: the first item cannot be written, the second does not decode, the
\* third succeeds, and the batch succeeds
C2_Witness ==
    /\ BatchReturned
    /\ call.result.success
    /\ Len(results) = 3
    /\ ~results[1].success /\ results[1].error = "OSError"
    /\ ~results[2].success /\ ~DecodedOf(lines[2]).ok
    /\ results[3].success

\* the extension the specification gives a classification (content_type, mime_type)
ExpectedExt(ct) ==
    CASE ct[1] = "json" -> ".json"
      [] ct[1] = "text" -> ".txt"
      [] ct[2] = "image/png" -> ".png"
      [] ct[2] = "image/jpeg" -> ".jpg"
      [] ct[2] = "image/gif" -> ".gif"
      [] ct[2] = "application/pdf" -> ".pdf"
      [] OTHER -> ".bin"

\* C3: with an output directory, the output file of item i is item_<i><ext>, where
\* ext is .json for content classified json, .txt for text, .png, .jpg, .gif and
\* .pdf for these mime types, and .bin for anything else.
C3_ExtensionByType ==
    (call.op = "batch" /\ Truthy(output_dir)) =>
        \A k \in 1..Len(results) :
            results[k].success =>
                results[k].output_file
                    = << output_dir, "/", "item_", ToString(k - 1),
                         ExpectedExt(detect_content_type(DecodedOf(lines[k]).data)) >>

\* C4: a successful decode_base64 applies exactly one output policy: (a) with an
\* output path, the decoded bytes are in the file and the result has output_file
\* and neither content nor hex_preview; (b) else, for JSON, the result has the
\* parsed content and raw_string, force_binary or not; (c) else, for text without
\* force_binary, content is the decoded text; (d) else hex_preview is the hex of
\* the first 64 decoded bytes and there is no content.
C4_OutputPolicy ==
    (call.op = "decode" /\ call.result.success) =>
        LET r == call.result
            bytes == DecodedOf(call.b64_string).data
            ct == detect_content_type(bytes)
            text == utf8_decode(bytes).text
            keys == DOMAIN r \cap {"output_file", "content", "raw_string", "hex_preview"}
        IN  IF Truthy(call.output_file)
            THEN /\ keys = {"output_file"}
                 /\ r.output_file = call.output_file
                 /\ fs[call.output_file] = bytes
            ELSE IF ct[1] = "json"
            THEN /\ keys = {"content", "raw_string"}
                 /\ r.content = json_loads(text)
                 /\ r.raw_string = text
            ELSE IF ct[1] = "text" /\ ~call.force_binary
            THEN /\ keys = {"content"}
                 /\ r.content = text
            ELSE /\ keys = {"hex_preview"}
                 /\ r.hex_preview = Hex(Take(bytes, 64))

\* C4 witness: JSON decoded with force_binary and no output path
C4_Witness ==
    /\ call.op = "decode"
    /\ call.result.success
    /\ call.force_binary
    /\ ~Truthy(call.output_file)
    /\ call.result.type = "json"
    /\ "content" \in DOMAIN call.result
    /\ "hex_preview" \notin DOMAIN call.result

\* C5 as stated: the decode subcommand decodes the positional argument when one is
\* given, otherwise what --file holds, otherwise standard input.
C5_PositionalFirst ==
    (call.op = "main_decode" /\ call.args.base64_string # None) =>
        /\ "b64_input" \in DOMAIN call
        /\ call.b64_input = call.args.base64_string

\* C5 amended: the decode subcommand decodes what --file holds, stripped, whenever a
\* non-empty --file is given, also when a positional string is given (a file that
\* cannot be read ends the run with the exception); otherwise the positional
\* argument when it is a non-empty string; otherwise standard input, stripped.
C5_FileFirst ==
    call.op = "main_decode" =>
        IF Truthy(call.args.file)
        THEN IF call.file_text = None
             THEN call.raised /\ "result" \notin DOMAIN call
             ELSE ~call.raised /\ call.b64_input = Strip(call.file_text)
        ELSE /\ ~call.raised
             /\ call.b64_input = IF Truthy(call.args.base64_string)
                                 THEN call.args.base64_string
                                 ELSE Strip(call.stdin)

\* C5 witness: a positional string and a readable --file, and the file is decoded
C5_Witness ==
    /\ call.op = "main_decode"
    /\ Truthy(call.args.base64_string)
    /\ Truthy(call.args.file)
    /\ ~call.raised
    /\ call.b64_input = Strip(call.file_text)
    /\ call.b64_input # call.args.base64_string
    /\ call.result.success
    /\ call.result.type = "json"

\* Base64 in the strict sense: alphabet characters, then at most two '=', four
\* characters to the quad
StrictBase64(s) ==
    /\ Len(s) % 4 = 0
    /\ \A k \in 1..Len(s) :
         \/ IsB64(s[k])
         \/ /\ s[k] = "="
            /\ k >= Len(s) - 1
            /\ \A j \in k..Len(s) : s[j] = "="

\* C6: decode_base64 and detect_type return success = false for every input that,
\* once normalized, holds a character outside the Base64 alphabet or has invalid
\* padding.
C6_InvalidInputFails ==
    (call.op \in {"decode", "detect"} /\ ~StrictBase64(normalize_base64(call.b64_string)))
        => ~call.result.success

\* C7: the string encode_base64 returns for the bytes B, URL-safe or not, is
\* normalized to the standard encoding of B ('-' and '_' back to '+' and '/'), and
\* decode_base64 of it, when the write of the output file (if any) goes through,
\* succeeds with raw_size = len(B) and, with an output path, writes exactly B.
C7_RoundTrip ==
    (call.op = "decode" /\ call.prev.op = "encode") =>
        LET B == call.prev.raw_bytes
            encoded == call.prev.result.encoded
            r == call.result
        IN  /\ call.b64_string = encoded
            /\ normalize_base64(encoded) = b64encode(B)
            /\ call.io = "ok" =>
                 /\ r.success
                 /\ r.raw_size = Len(B)
                 /\ "hex_preview" \in DOMAIN r => r.hex_preview = Hex(Take(B, 64))
                 /\ Truthy(call.output_file) =>
                      /\ fs[call.output_file] = B
                      /\ writes = << [path |-> call.output_file, data |-> B] >>

\* C7 witness: a URL-safe encoding holding '-' and '_' decoded into a file
C7_Witness ==
    /\ call.op = "decode"
    /\ call.prev.op = "encode"
    /\ call.prev.url_safe
    /\ Contains(call.b64_string, "-")
    /\ Contains(call.b64_string, "_")
    /\ call.result.success
    /\ Truthy(call.output_file)
    /\ fs[call.output_file] = call.prev.raw_bytes
    /\ Len(call.prev.raw_bytes) = 3

\* the classification the specification gives a buffer
ExpectedClass(data) ==
    IF StartsWith(data, << 137, 80, 78, 71, 13, 10, 26, 10 >>)
    THEN << "image", "image/png" >>
    ELSE IF StartsWith(data, << 255, 216, 255 >>) THEN << "image", "image/jpeg" >>
    ELSE IF StartsWith(data, << 71, 73, 70, 56, 55, 97 >>)
            \/ StartsWith(data, << 71, 73, 70, 56, 57, 97 >>)
    THEN << "image", "image/gif" >>
    ELSE IF StartsWith(data, << 37, 80, 68, 70 >>) THEN << "application", "application/pdf" >>
    ELSE IF StartsWith(data, << 80, 75, 3, 4 >>) THEN << "application", "application/zip" >>
    ELSE IF StartsWith(data, << 31, 139 >>) THEN << "application", "application/gzip" >>
    ELSE IF utf8_decode(data).ok /\ json_valid(utf8_decode(data).text)
    THEN << "json", "application/json" >>
    ELSE IF utf8_decode(data).ok THEN << "text", "text/plain" >>
    ELSE << "binary", "application/octet-stream" >>

\* C8: detect_content_type looks at the magic prefixes first: a buffer that starts
\* with a PNG, JPEG, GIF87a/GIF89a, PDF, ZIP or GZIP signature gets that mime type
\* even when it is valid UTF-8; otherwise valid UTF-8 that parses as JSON (a lone
\* scalar too) is json, other valid UTF-8 is text, and anything else is binary.
C8_MagicFirst ==
    call.op = "detect_content_type" => call.result = ExpectedClass(call.data)

\* C8 witness: a buffer that starts with %PDF and is valid UTF-8 text
C8_Witness ==
    /\ call.op = "detect_content_type"
    /\ StartsWith(call.data, << 37, 80, 68, 70 >>)
    /\ utf8_decode(call.data).ok
    /\ call.result = << "application", "application/pdf" >>

\* C9: normalize_base64 is idempotent: what it returns holds no whitespace, no '-'
\* and no '_', its length is a multiple of 4, and normalizing it again returns it.
C9_NormalizeIdempotent ==
    (call.op = "normalize" /\ pc = "done") =>
        /\ call.b64_string = call.prev.result
        /\ call.result = call.prev.result
        /\ Len(call.prev.result) % 4 = 0
        /\ \A k \in 1..Len(call.prev.result) :
             call.prev.result[k] \notin Whitespace \cup {"-", "_"}

\* C9 witness: a string with whitespace, '-' and a length that is no multiple of 4,
\* normalized twice
C9_Witness ==
    /\ call.op = "normalize"
    /\ pc = "done"
    /\ Contains(call.prev.b64_string, " ")
    /\ Contains(call.prev.b64_string, "-")
    /\ Len(call.prev.b64_string) % 4 = 3
    /\ call.prev.result # call.prev.b64_string
    /\ call.result = call.prev.result

\* the writes to the output file of the k-th line (counting from 1)
ItemWrites(k) == {w \in 1..Len(writes) : writes[w].path[4] = ToString(k - 1)}

\* no write of an output file has failed
NoWriteFailed ==
    \A k \in 1..Len(results) : results[k].success \/ results[k].error # "OSError"

\* C10: in batch_decode with an output directory, as long as no write fails, a file
\* is written for item i exactly when result i has success = true; a line that does
\* not decode opens no file; a successful item writes one file, the one its result
\* names, holding its decoded bytes; and no two items write the same path.
C10_FilesMatchResults ==
    (call.op = "batch" /\ pc \in {"batch", "done"} /\ Truthy(output_dir) /\ NoWriteFailed) =>
        /\ \A k \in 1..Len(results) :
             /\ (ItemWrites(k) # {}) <=> results[k].success
             /\ ~DecodedOf(lines[k]).ok => ItemWrites(k) = {}
             /\ results[k].success =>
                  /\ Cardinality(ItemWrites(k)) = 1
                  /\ \A w \in ItemWrites(k) :
                       /\ writes[w].path = results[k].output_file
                       /\ writes[w].data = DecodedOf(lines[k]).data
                       /\ fs[writes[w].path] = writes[w].data
        /\ \A a, b \in 1..Len(writes) : a # b => writes[a].path # writes[b].path
        /\ DOMAIN fs = {writes[w].path : w \in 1..Len(writes)}

\* C10 witness: three lines, the second undecodable, two files written
C10_Witness ==
    /\ BatchReturned
    /\ Truthy(output_dir)
    /\ NoWriteFailed
    /\ Len(results) = 3
    /\ results[1].success
    /\ ~results[2].success
    /\ results[3].success
    /\ Len(writes) = 2
    /\ Cardinality(DOMAIN fs) = 2
====
